---- MODULE Spec2Model ----
(***************************************************************************)
(* A model of joblib/exception_fmt.py, the verbose traceback formatter.    *)
(*                                                                         *)
(* Text is modelled as a sequence of atoms (identifiers, '.', fixed        *)
(* fragments), so that Python's string concatenation is sequence           *)
(* concatenation.  A source file is modelled by its number of lines: the   *)
(* content of line k is the number k, and the pad line '\n' that the       *)
(* window code inserts is the number 0.                                    *)
(***************************************************************************)
EXTENDS Integers, Sequences, FiniteSets, TLC

VARIABLES
    pc,         \* control point of the routine being run
    arg,        \* the inputs of the call
    ret,        \* the value returned (or the exception raised) by the call
    names,      \* print_records: the list the tokeneater appends to
    name_cont,  \* tokeneater.name_cont
    tpos,       \* number of tokens the tokenizer has handed to tokeneater
    records,    \* the frame records (_fixed_getframes / print_outer_frame)
    exception,  \* print_exc: the list of exception lines
    bound,      \* print_records: the frame whose args/locals are bound
    frames      \* print_records: the list of rendered frames

vars == <<pc, arg, ret, names, name_cont, tpos, records, exception, bound, frames>>

----------------------------------------------------------------------------
(* Bounds of the model *)

MaxLen == 5

----------------------------------------------------------------------------
(* Generic helpers *)

None == [kind |-> "None"]

BoundedSeq(S, n) == UNION {[1..k -> S] : k \in 0..n}

Max(a, b) == IF a >= b THEN a ELSE b

Min(a, b) == IF a <= b THEN a ELSE b

Range(s) == {s[i] : i \in DOMAIN s}

\* Python's seq[start:end] for 0 <= start <= end (0-based, end exclusive)
Slice(s, start, end) ==
    LET hi == Min(end, Len(s))
    IN  IF start >= hi THEN <<>> ELSE [i \in 1..(hi - start) |-> s[start + i]]

\* Python's [x] * n
Repeat(x, n) == [i \in 1..Max(n, 0) |-> x]

----------------------------------------------------------------------------
(* uniq_stable *)

RECURSIVE uniq_loop(_, _, _, _)
uniq_loop(elems, i, unique, unique_dict) ==
    IF i > Len(elems) THEN unique
    ELSE LET nn == elems[i]
         IN  IF nn \notin unique_dict
             THEN uniq_loop(elems, i + 1, Append(unique, nn), unique_dict \cup {nn})
             ELSE uniq_loop(elems, i + 1, unique, unique_dict)

\* a plausible slip: the membership test is dropped, every element is kept
uniq_stable_nocheck(elems) == elems

uniq_stable(elems) == uniq_loop(elems, 1, <<>>, {})

----------------------------------------------------------------------------
(* Values the unused variables keep *)

Quiet ==
    /\ names = <<>>
    /\ name_cont = FALSE
    /\ tpos = 0
    /\ records = <<>>
    /\ exception = <<>>
    /\ bound = None
    /\ frames = <<>>

----------------------------------------------------------------------------
(* Specification of uniq_stable: the input is drawn, the call applies it *)

Elems == {"a", "b", "c"}

InitUniq ==
    /\ pc = "uniq_stable"
    /\ arg \in BoundedSeq(Elems, MaxLen)
    /\ ret = None
    /\ Quiet

CallUniqStable ==
    /\ pc = "uniq_stable"
    /\ ret' = uniq_stable(arg)
    /\ pc' = "returned"
    /\ UNCHANGED <<arg, names, name_cont, tpos, records, exception, bound, frames>>

NextUniq == CallUniqStable

SpecUniq == InitUniq /\ [][NextUniq]_vars

IsSubsequence(u, s) ==
    \E f \in [DOMAIN u -> DOMAIN s] :
        /\ \A i \in DOMAIN u : s[f[i]] = u[i]
        /\ \A i, j \in DOMAIN u : i < j => f[i] < f[j]

FirstOcc(s, x) == CHOOSE i \in DOMAIN s : s[i] = x /\ \A j \in 1..(i - 1) : s[j] # x

\* C6: uniq_stable returns each distinct element of the input exactly once, in
\* the order of the first occurrences; the result is a subsequence of the
\* input and uniq_stable leaves it unchanged.
C6_UniqStable ==
    pc = "returned" =>
        /\ Range(ret) = Range(arg)
        /\ \A i, j \in DOMAIN ret : i # j => ret[i] # ret[j]
        /\ \A i, j \in DOMAIN ret : i < j => FirstOcc(arg, ret[i]) < FirstOcc(arg, ret[j])
        /\ IsSubsequence(ret, arg)
        /\ uniq_stable(ret) = ret

\* the documented example: [a, b, a, c, b] gives [a, b, c]
C6_Witness ==
    /\ pc = "returned"
    /\ arg = <<"a", "b", "a", "c", "b">>
    /\ ret = <<"a", "b", "c">>

----------------------------------------------------------------------------
(* Tokens and the tokeneater of print_records *)

NameTok(s) == [type |-> "NAME", string |-> s]

OpTok(s) == [type |-> "OP", string |-> s]

NewlineTok == [type |-> "NEWLINE", string |-> "\n"]

\* keyword.kwlist, cut to the reserved words the model's lines use
kwlist == {"if"}

\* names[-1] += s
ExtendLast(nms, s) == [nms EXCEPT ![Len(nms)] = Append(@, s)]

\* lines 234-248: the part of tokeneater after the '.' case
tokeneater_rest(st, tok) ==
    IF tok.type = "NAME" /\ tok.string \notin kwlist
    THEN IF st.name_cont
         THEN [names |-> ExtendLast(st.names, tok.string), name_cont |-> FALSE,
               raised |-> FALSE]
         ELSE [names |-> Append(st.names, <<tok.string>>), name_cont |-> st.name_cont,
               raised |-> FALSE]
    ELSE IF tok.type = "NEWLINE"
         THEN [names |-> st.names, name_cont |-> st.name_cont, raised |-> TRUE]
         ELSE [names |-> st.names, name_cont |-> st.name_cont, raised |-> FALSE]

\* a plausible slip: the '.' is appended but the continuation flag is not set
tokeneater_noflag(st, tok) ==
    IF tok.string = "." /\ st.names # <<>>
    THEN [names |-> ExtendLast(st.names, "."), name_cont |-> st.name_cont,
          raised |-> FALSE]
    ELSE tokeneater_rest(st, tok)

\* One call of tokeneater on the state (names, name_cont); raised is the
\* IndexError that ends the scan.  names[-1] on an empty list raises the
\* IndexError that the '.' case swallows before falling through.
tokeneater(st, tok) ==
    IF tok.string = "." /\ st.names # <<>>
    THEN [names |-> ExtendLast(st.names, "."), name_cont |-> TRUE, raised |-> FALSE]
    ELSE tokeneater_rest(st, tok)

\* tokenize.tokenize(linereader, tokeneater) on the tokens of the failing
\* statement: every token is handed to tokeneater until it raises or the
\* tokenizer runs out of input (ENDMARKER or TokenError: the names are kept)
RECURSIVE scan_loop(_, _, _)
scan_loop(tokens, i, st) ==
    IF i > Len(tokens) THEN st.names
    ELSE LET r == tokeneater(st, tokens[i])
         IN  IF r.raised THEN r.names
             ELSE scan_loop(tokens, i + 1, [names |-> r.names, name_cont |-> r.name_cont])

\* lines 214, 251, 260-273: the names of a line, pruned of duplicates
unique_names_of(tokens) ==
    uniq_stable(scan_loop(tokens, 1, [names |-> <<>>, name_cont |-> FALSE]))

----------------------------------------------------------------------------
(* Specification of the scan: one step per token handed to tokeneater *)

MaxToks == 4

\* y = obj.attr + obj.attr2
ExampleLine ==
    << NameTok("y"), OpTok("="), NameTok("obj"), OpTok("."), NameTok("attr"),
       OpTok("+"), NameTok("obj"), OpTok("."), NameTok("attr2"), NewlineTok >>

TokAlphabet ==
    {NameTok("obj"), NameTok("attr"), NameTok("if"), OpTok("."), OpTok(")"), NewlineTok}

ScanLines == BoundedSeq(TokAlphabet, MaxToks) \cup {ExampleLine}

InitScan ==
    /\ pc = "tokenize"
    /\ arg \in ScanLines
    /\ ret = None
    /\ names = <<>>
    /\ name_cont = FALSE
    /\ tpos = 0
    /\ records = <<>>
    /\ exception = <<>>
    /\ bound = None
    /\ frames = <<>>

\* the tokenizer hands the next token to tokeneater; the IndexError raised on
\* NEWLINE is caught by print_records, which then prunes the names (line 273)
TokenStep ==
    /\ pc = "tokenize"
    /\ tpos < Len(arg)
    /\ LET r == tokeneater([names |-> names, name_cont |-> name_cont], arg[tpos + 1])
       IN  /\ names' = r.names
           /\ name_cont' = r.name_cont
           /\ tpos' = tpos + 1
           /\ IF r.raised
              THEN /\ pc' = "scanned"
                   /\ ret' = [unique_names |-> uniq_stable(r.names), warning |-> FALSE]
              ELSE UNCHANGED <<pc, ret>>
    /\ UNCHANGED <<arg, records, exception, bound, frames>>

\* the input ends before a NEWLINE token: tokenize returns after ENDMARKER
TokenizerReturns ==
    /\ pc = "tokenize"
    /\ tpos = Len(arg)
    /\ pc' = "scanned"
    /\ ret' = [unique_names |-> uniq_stable(names), warning |-> FALSE]
    /\ UNCHANGED <<arg, names, name_cont, tpos, records, exception, bound, frames>>

\* the input ends inside a multi-line statement: tokenize raises TokenError,
\* print_records prints the warning and keeps the names collected so far
TokenizerTokenError ==
    /\ pc = "tokenize"
    /\ tpos = Len(arg)
    /\ pc' = "scanned"
    /\ ret' = [unique_names |-> uniq_stable(names), warning |-> TRUE]
    /\ UNCHANGED <<arg, names, name_cont, tpos, records, exception, bound, frames>>

NextScan == TokenStep \/ TokenizerReturns \/ TokenizerTokenError

SpecScan == InitScan /\ [][NextScan]_vars

Text(s) == <<s>>

Dotted(a, b) == <<a, ".", b>>

IsIdent(tok) == tok.type = "NAME" /\ tok.string \notin kwlist

\* x occurs among the tokens handed to tokeneater, and every occurrence is
\* immediately followed by a '.' token
HeadOnly(x) ==
    /\ \E i \in 1..tpos : arg[i] = NameTok(x)
    /\ \A i \in 1..tpos : arg[i] = NameTok(x) => (i < tpos /\ arg[i + 1].string = ".")

\* C7 as stated: the line y = obj.attr + obj.attr2 yields exactly
\* ['obj.attr', 'obj.attr2'].
C7_ExampleAsStated ==
    (pc = "scanned" /\ arg = ExampleLine) =>
        ret.unique_names = <<Dotted("obj", "attr"), Dotted("obj", "attr2")>>

\* C7 amended: the line y = obj.attr + obj.attr2 yields ['y', 'obj.attr',
\* 'obj.attr2'] (the assigned name y is listed as well); the result lists the
\* collected names in first-seen order without duplicates, and an identifier
\* that occurs only as the head of dotted paths is never listed on its own.
C7_ReferencedNames ==
    pc = "scanned" =>
        /\ arg = ExampleLine =>
              ret.unique_names = <<Text("y"), Dotted("obj", "attr"), Dotted("obj", "attr2")>>
        /\ Range(ret.unique_names) = Range(names)
        /\ \A i, j \in DOMAIN ret.unique_names :
              /\ i # j => ret.unique_names[i] # ret.unique_names[j]
              /\ i < j => FirstOcc(names, ret.unique_names[i])
                            < FirstOcc(names, ret.unique_names[j])
        /\ \A i \in 1..tpos :
              (IsIdent(arg[i]) /\ HeadOnly(arg[i].string))
                  => Text(arg[i].string) \notin Range(ret.unique_names)

C7_Witness ==
    /\ pc = "scanned"
    /\ arg = ExampleLine
    /\ HeadOnly("obj")
    /\ ret.unique_names = <<Text("y"), Dotted("obj", "attr"), Dotted("obj", "attr2")>>

\* C10: the scanner is the two-state machine {FRESH, AFTER_DOT}: it starts
\* FRESH; an identifier in FRESH starts a new name; a '.' moves to AFTER_DOT
\* only right after a name token and otherwise extends no collected name; an
\* identifier in AFTER_DOT is appended to the latest name and the state
\* returns to FRESH; the first NEWLINE ends the scan and changes no name.
C10_TwoStateScanner ==
    /\ name_cont = FALSE
    /\ [][ (pc = "tokenize" /\ tpos' = tpos + 1) =>
             LET tok == arg[tpos + 1]
                 afterName  == tpos > 0 /\ IsIdent(arg[tpos])
                 afterOther == tpos = 0 \/ arg[tpos].type # "NAME"
             IN  /\ (IsIdent(tok) /\ ~name_cont) =>
                        (names' = Append(names, Text(tok.string)) /\ ~name_cont')
                 /\ (IsIdent(tok) /\ name_cont) =>
                        (names' = ExtendLast(names, tok.string) /\ ~name_cont')
                 /\ (tok.string = "." /\ afterName) => name_cont'
                 /\ (tok.string = "." /\ afterOther /\ ~name_cont) =>
                        (names' = names /\ name_cont' = name_cont)
                 /\ (tok = NewlineTok) => (pc' = "scanned" /\ names' = names)
         ]_vars

----------------------------------------------------------------------------
(* The source window: lines 121-133 of _fixed_getframes, repeated at lines *)
(* 414-426 of print_outer_frame                                            *)

\* linecache.getlines(file): line k of the file is k; a file that cannot be
\* found has no lines
getlines(flen) == [k \in 1..flen |-> k]

\* the pad line '\n'
PadLine == 0

\* inspect reports index None when it finds no source; otherwise an integer
NoIndex == <<>>

Index(n) == <<n>>

window(flen, lnum, context) ==
    LET maybeStart == lnum - 1 - (context \div 2)
        start      == Max(maybeStart, 0)
        end        == start + context
        sliced     == Slice(getlines(flen), start, end)
        padded     == IF maybeStart < 0
                      THEN Repeat(PadLine, 0 - maybeStart) \o sliced
                      ELSE sliced
        lines      == IF Len(padded) < context
                      THEN padded \o Repeat(PadLine, context - Len(padded))
                      ELSE padded
    IN  [lines |-> lines, index |-> Index(lnum - 1 - start)]

\* a record (frame, file, lnum, func, lines, index); the file is named by the
\* number of lines the line cache holds for it
Record(frame, flen, lnum, func, lines, index) ==
    [frame |-> frame, file |-> flen, lnum |-> lnum, func |-> func,
     lines |-> lines, index |-> index]

\* lines 101-135.  etb is the chain of traceback entries; inspect's own
\* lines and index are overwritten for every entry.
_fixed_getframes(etb, context, tb_offset) ==
    LET fixed == [i \in DOMAIN etb |->
                    LET w == window(etb[i].file, etb[i].lnum, context)
                    IN  Record(etb[i].frame, etb[i].file, etb[i].lnum,
                               etb[i].frame.func, w.lines, w.index)]
    IN  Slice(fixed, tb_offset, Len(fixed))

----------------------------------------------------------------------------
(* _format_traceback_lines *)

numbers_width == 7

RECURSIVE StrLen(_)
\* len(str(i)) for i >= 0
StrLen(i) == IF i < 10 THEN 1 ELSE 1 + StrLen(i \div 10)

marker_of(i) ==
    LET pad == numbers_width - StrLen(i)
    IN  IF pad >= 3 THEN Repeat("-", pad - 3) \o <<"-> ">>
        ELSE IF pad = 2 THEN <<"> ">>
        ELSE IF pad = 1 THEN <<">">>
        ELSE <<>>

SrcRow(num, marked, line) == [kind |-> "src", num |-> num, marked |-> marked, text |-> <<line>>]

LvalsRow(lvals) == [kind |-> "lvals", num |-> <<>>, marked |-> FALSE, text |-> lvals]

RECURSIVE format_loop(_, _, _, _, _)
format_loop(lnum, lines, lvals, k, i) ==
    IF k > Len(lines) THEN <<>>
    ELSE LET num == IF i = lnum
                    THEN marker_of(i) \o <<i>>
                    ELSE Repeat(" ", numbers_width - StrLen(i)) \o <<i>>
             row == <<SrcRow(num, i = lnum, lines[k])>>
             extra == IF lvals # <<>> /\ i = lnum THEN <<LvalsRow(lvals)>> ELSE <<>>
         IN  row \o extra \o format_loop(lnum, lines, lvals, k + 1, i + 1)

_format_traceback_lines(lnum, index, lines, lvals) ==
    format_loop(lnum, lines, lvals, 1, lnum - index)

----------------------------------------------------------------------------
(* print_records: the body of the loop over the records *)

\* A frame as the introspection calls see it:
\*   func               the function name ('?' for a module-level frame)
\*   getargvalues       "ok" or "raise": inspect.getargvalues(frame)
\*   formatargvalues    "ok", "KeyError" or another exception: what
\*                      inspect.formatargvalues does with the frame's values
\*   co_varnames        frame.f_code.co_varnames
\*   f_locals           the keys of the frame's local bindings
\*   eval_raises        the names whose eval or repr raises in those bindings
\*   source             the text of the statement at the frame's line
FrameInfo(id, func, ga, fa, co, loc, er, src) ==
    [id |-> id, func |-> func, getargvalues |-> ga, formatargvalues |-> fa,
     co_varnames |-> co, f_locals |-> loc, eval_raises |-> er, source |-> src]

Raise(exc, at) == [kind |-> "raise", exc |-> exc, at |-> at]

\* a dotted name that eval can parse: identifiers separated by single dots
WellFormed(name) ==
    /\ Len(name) % 2 = 1
    /\ \A i \in DOMAIN name : (name[i] = ".") <=> (i % 2 = 0)

\* repr(eval(name_full, locals)) in the bindings of frame fr
ReprIn(fr, name_full) == [repr |-> name_full, in_frame |-> fr.id]

Undefined == [repr |-> <<"undefined">>, in_frame |-> 0]

\* lines 281-284: the bare except turns every failure into "undefined"
eval_repr(fr, name_full) ==
    IF WellFormed(name_full) /\ name_full \notin fr.eval_raises
    THEN ReprIn(fr, name_full)
    ELSE Undefined

\* the statement g(obj).attr: a '.' that follows a closing parenthesis
CallLine ==
    << NameTok("g"), OpTok("("), NameTok("obj"), OpTok(")"), OpTok("."),
       NameTok("attr"), NewlineTok >>

\* the tokens that tokenize generates for the statements of the model
TokensOf(source) ==
    IF source = "y = obj.attr + obj.attr2" THEN ExampleLine
    ELSE IF source = "g(obj).attr" THEN CallLine
    ELSE <<>>

\* linereader: linecache.getline(file, lnum) is '' outside the file
tokens_at(rec) == IF rec.lnum <= rec.file THEN TokensOf(rec.frame.source) ELSE <<>>

\* call = '' for a module-level frame
NoCall == [func |-> "?", args |-> "", of |-> 0]

\* 'in %s(***failed resolving arguments***)' % func
FailedCall(func) == [func |-> func, args |-> "***failed resolving arguments***", of |-> 0]

\* 'in %s%s' % (func, formatargvalues(args, varargs, varkw, locals, ...)) with
\* the argument values of frame fr
FormattedCall(func, fr) == [func |-> func, args |-> "values", of |-> fr.id]

\* lines 276-298, with bnd the frame whose args/locals are bound (None when
\* the name locals was never assigned)
RECURSIVE lvals_loop(_, _, _, _)
lvals_loop(unique_names, k, rec, bnd) ==
    IF k > Len(unique_names) THEN [raised |-> FALSE, lvals |-> <<>>]
    ELSE LET name_full == unique_names[k]
             name_base == name_full[1]
             rest == lvals_loop(unique_names, k + 1, rec, bnd)
         IN  IF name_base \in rec.frame.co_varnames
             THEN IF bnd = None
                  THEN [raised |-> TRUE, lvals |-> <<>>]
                  ELSE LET value == IF name_base \in bnd.f_locals
                                    THEN eval_repr(bnd, name_full)
                                    ELSE Undefined
                       IN  [raised |-> rest.raised,
                            lvals |-> <<[name |-> name_full, value |-> value]>> \o rest.lvals]
             ELSE rest

\* One iteration of the loop of print_records (lines 171-310) on record rec.
\* The result is the new binding of args/locals and either the exception
\* that leaves print_records or the text appended to frames.
frame_body(rec, bnd) ==
    LET fr     == rec.frame
        bnd1   == IF fr.getargvalues = "ok" THEN fr ELSE bnd
        unique_names == unique_names_of(tokens_at(rec))
        lv     == lvals_loop(unique_names, 1, rec, bnd1)
        call   == IF rec.func = "?" THEN NoCall
                  ELSE IF bnd1.formatargvalues = "KeyError" THEN FailedCall(rec.func)
                  ELSE FormattedCall(rec.func, bnd1)
        level  == [link |-> rec.file, call |-> call]
        rows   == IF rec.index = NoIndex THEN <<>>
                  ELSE _format_traceback_lines(rec.lnum, rec.index[1], rec.lines, lv.lvals)
    IN  IF rec.func # "?" /\ bnd1 = None
        THEN [bound |-> bnd1, raised |-> Raise("UnboundLocalError", "formatargvalues")]
        ELSE IF rec.func # "?" /\ bnd1.formatargvalues \notin {"ok", "KeyError"}
        THEN [bound |-> bnd1, raised |-> Raise(bnd1.formatargvalues, "formatargvalues")]
        ELSE IF lv.raised
        THEN [bound |-> bnd1, raised |-> Raise("UnboundLocalError", "locals.has_key")]
        ELSE [bound |-> bnd1, raised |-> None,
              frame |-> [level |-> level, rows |-> rows, lvals |-> lv.lvals]]

----------------------------------------------------------------------------
(* safe_repr *)

\* A value as safe_repr sees it: what pydoc.text.repr and repr do with it
\* ("ok", "raise", or "interrupt" for KeyboardInterrupt), and what getattr
\* gives for __name__ and __class__: it raises, is interrupted, gives a
\* false value (None, '', a class that tests false), or gives a value.
Outcome == {"ok", "raise", "interrupt"}

AttrLeaf == {[get |-> g, value |-> None] : g \in {"raise", "interrupt", "falsy"}}

LeafValues ==
    [text_repr : {"ok", "raise"}, repr : Outcome,
     name : {[get |-> "falsy", value |-> None]}, klass : AttrLeaf]

Attrs == AttrLeaf \cup {[get |-> "value", value |-> v] : v \in LeafValues}

Values == [text_repr : Outcome, repr : Outcome, name : Attrs, klass : Attrs]

Str(text) == [kind |-> "str", text |-> text]

KeyboardInterrupt == [kind |-> "KeyboardInterrupt", text |-> <<>>]

\* a function that falls off its end returns None
ReturnsNone == [kind |-> "None", text |-> <<>>]

Sentinel == Str(<<"UNRECOVERABLE REPR FAILURE">>)

\* '%s' % x
Percent_s(r) == IF r.kind = "None" THEN <<"None">> ELSE r.text

RECURSIVE safe_repr(_)
safe_repr(value) ==
    IF value.text_repr = "ok" THEN Str(<<"pydoc.text.repr">>)
    ELSE IF value.text_repr = "interrupt" THEN KeyboardInterrupt
    ELSE IF value.repr = "ok" THEN Str(<<"repr">>)
    ELSE IF value.repr = "interrupt" THEN KeyboardInterrupt
    ELSE IF value.name.get = "interrupt" THEN KeyboardInterrupt
    ELSE IF value.name.get = "raise" THEN Sentinel
    ELSE IF value.name.get = "value" THEN safe_repr(value.name.value)
    ELSE IF value.klass.get = "interrupt" THEN KeyboardInterrupt
    ELSE IF value.klass.get = "raise" THEN Sentinel
    ELSE IF value.klass.get = "value"
         THEN LET r == safe_repr(value.klass.value)
              IN  IF r.kind = "KeyboardInterrupt" THEN KeyboardInterrupt
                  ELSE Str(Percent_s(r) \o <<" instance">>)
    ELSE ReturnsNone

InitRepr ==
    /\ pc = "safe_repr"
    /\ arg \in Values
    /\ ret = None
    /\ Quiet

CallSafeRepr ==
    /\ pc = "safe_repr"
    /\ ret' = safe_repr(arg)
    /\ pc' = "returned"
    /\ UNCHANGED <<arg, names, name_cont, tpos, records, exception, bound, frames>>

NextRepr == CallSafeRepr

SpecRepr == InitRepr /\ [][NextRepr]_vars

\* C5: safe_repr returns a string for every value unless it is interrupted:
\* the detailed representation, else the plain repr, else the text of the
\* name attribute, else a string built from the class, and the sentinel
\* when every method fails; no path ends without returning a string.
C5_SafeReprReturnsString ==
    (pc = "returned" /\ ret.kind # "KeyboardInterrupt") =>
        /\ ret.kind = "str"
        /\ arg.text_repr = "ok" => ret = Str(<<"pydoc.text.repr">>)
        /\ (arg.text_repr = "raise" /\ arg.repr = "ok") => ret = Str(<<"repr">>)
        /\ (arg.text_repr = "raise" /\ arg.repr = "raise"
              /\ arg.name.get # "value" /\ arg.klass.get # "value") => ret = Sentinel

----------------------------------------------------------------------------
(* print_records, print_exc and print_outer_frame as steps *)

MaxFrames == 2

INDENT == "        "

Placeholder == <<"Exception reporting error (object with broken dir()):">>

\* one iteration of the loop of print_records on the next record
PrintRecordsFrame ==
    /\ pc = "print_records"
    /\ Len(frames) < Len(records)
    /\ LET r == frame_body(records[Len(frames) + 1], bound)
       IN  /\ bound' = r.bound
           /\ IF r.raised # None
              THEN /\ pc' = "raised"
                   /\ ret' = r.raised
                   /\ UNCHANGED frames
              ELSE /\ frames' = Append(frames, r.frame)
                   /\ UNCHANGED <<pc, ret>>
    /\ UNCHANGED <<arg, names, name_cont, tpos, records, exception>>

\* line 320, for a direct call of print_records (lines 312-317 compute a
\* path that is not used)
PrintRecordsReturn ==
    /\ pc = "print_records"
    /\ arg.fn = "print_records"
    /\ Len(frames) = Len(records)
    /\ pc' = "returned"
    /\ ret' = [kind |-> "list", frames |-> frames]
    /\ UNCHANGED <<arg, names, name_cont, tpos, records, exception, bound, frames>>

\* lines 349-358
FixedGetframes ==
    /\ pc = "print_exc"
    /\ records' = _fixed_getframes(arg.etb, arg.context, arg.tb_offset)
    /\ pc' = "exc_info"
    /\ UNCHANGED <<arg, ret, names, name_cont, tpos, exception, bound, frames>>

\* '\n%s%s = %s' % (INDENT, name, value) for every attribute; a
\* KeyboardInterrupt of safe_repr leaves print_exc
RECURSIVE attr_lines(_, _)
attr_lines(attrs, k) ==
    IF k > Len(attrs) THEN [raised |-> FALSE, lines |-> <<>>]
    ELSE LET value == safe_repr(attrs[k].value)
             rest  == attr_lines(attrs, k + 1)
         IN  IF value.kind = "KeyboardInterrupt"
             THEN [raised |-> TRUE, lines |-> <<>>]
             ELSE [raised |-> rest.raised,
                   lines |-> << <<"\n", INDENT, attrs[k].name, " = ">> \o Percent_s(value) >>
                                \o rest.lines]

\* lines 360-384: the list of exception lines.  When str() of the value
\* raises, evalue is rebound to sys.exc_info()[:2], which is no instance.
exception_lines(evalue) ==
    LET first == IF evalue.str_raises
                 THEN <<"str", ": ", "sys.exc_info()[:2]">>
                 ELSE <<"etype", ": ", "evalue">>
        is_instance == evalue.instance /\ ~evalue.str_raises
        attrs == attr_lines(evalue.attrs, 1)
    IN  IF ~is_instance THEN [raised |-> FALSE, lines |-> <<first>>]
        ELSE IF evalue.dir_raises
        THEN [raised |-> FALSE,
              lines |-> <<first, Placeholder, <<"dir etype", ": ", "dir evalue">> >>]
        ELSE [raised |-> attrs.raised, lines |-> <<first>> \o attrs.lines]

ExceptionInfo ==
    /\ pc = "exc_info"
    /\ LET e == exception_lines(arg.evalue)
       IN  IF e.raised
           THEN /\ pc' = "raised"
                /\ ret' = Raise("KeyboardInterrupt", "safe_repr")
                /\ UNCHANGED exception
           ELSE /\ pc' = "print_records"
                /\ exception' = e.lines
                /\ UNCHANGED ret
    /\ UNCHANGED <<arg, names, name_cont, tpos, records, bound, frames>>

\* line 387: '%s\n\n%s\n%s' % (head, '\n'.join(frames), ''.join(exception[0]))
print_exc_text(frms, exc) == [kind |-> "str", head |-> <<"head">>, frames |-> frms, exception |-> <<exc[1]>>]

PrintExcReturn ==
    /\ pc = "print_records"
    /\ arg.fn = "print_exc"
    /\ Len(frames) = Len(records)
    /\ pc' = "returned"
    /\ ret' = print_exc_text(frames, exception)
    /\ UNCHANGED <<arg, names, name_cont, tpos, records, exception, bound, frames>>

\* an optional integer argument: None or a number
Default == <<>>

\* Python's seq[start:stop:-1] for start, stop None or >= 0
RevSlice(s, start, stop) ==
    LET from == IF start = Default THEN Len(s) - 1 ELSE Min(start[1], Len(s) - 1)
        to   == IF stop = Default THEN 0 ELSE stop[1] + 1
    IN  IF from < to THEN <<>> ELSE [i \in 1..(from - to + 1) |-> s[from + 2 - i]]

\* the entries before the first frame of IPython's iplib.safe_execfile
RECURSIVE before_ipython(_, _)
before_ipython(stack, k) ==
    IF k > Len(stack) \/ stack[k].frame.func = "safe_execfile" THEN k - 1
    ELSE before_ipython(stack, k + 1)

\* lines 394-428 up to the call of print_records
outer_records(stack, context, stack_start, stack_end, ignore_ipython) ==
    LET n == IF ignore_ipython THEN before_ipython(stack, 1) ELSE Len(stack)
        output == [i \in 1..n |->
                     LET w == window(stack[i].file, stack[i].lnum, context)
                     IN  Record(stack[i].frame, stack[i].file, stack[i].lnum,
                                stack[i].frame.func, w.lines, w.index)]
    IN  RevSlice(output, stack_end, stack_start)

OuterFrames ==
    /\ pc = "print_outer_frame"
    /\ records' = outer_records(arg.etb, arg.context, arg.stack_start, arg.stack_end,
                                arg.ignore_ipython)
    /\ pc' = "print_records"
    /\ UNCHANGED <<arg, ret, names, name_cont, tpos, exception, bound, frames>>

PrintOuterFrameReturn ==
    /\ pc = "print_records"
    /\ arg.fn = "print_outer_frame"
    /\ Len(frames) = Len(records)
    /\ pc' = "returned"
    /\ ret' = [kind |-> "str", head |-> <<>>, frames |-> frames, exception |-> <<>>]
    /\ UNCHANGED <<arg, names, name_cont, tpos, records, exception, bound, frames>>

----------------------------------------------------------------------------
(* Specification of print_exc and print_outer_frame *)

FileLens == {0, 3, 5}

LineNos == {1, 3}

Contexts == {0, 2, 5}

\* a function frame on the line y = obj.attr + obj.attr2, a module-level
\* frame, and the frame of IPython's safe_execfile
StackFrames ==
    { FrameInfo(0, "f", "ok", "ok", {"y", "obj"}, {"obj"}, {}, "y = obj.attr + obj.attr2"),
      FrameInfo(0, "?", "ok", "ok", {}, {}, {}, "g(obj).attr"),
      FrameInfo(0, "safe_execfile", "ok", "ok", {"obj"}, {"obj"}, {}, "g(obj).attr") }

Entries == [file : FileLens, lnum : LineNos, frame : StackFrames]

\* the frames of a chain are distinct objects: frame i gets the id i
Numbered(chain) == [i \in DOMAIN chain |-> [chain[i] EXCEPT !.frame.id = i]]

Chains == {Numbered(c) : c \in UNION {[1..n -> Entries] : n \in 1..MaxFrames}}

EValues ==
    [instance : BOOLEAN, str_raises : BOOLEAN, dir_raises : BOOLEAN,
     attrs : { << [name |-> "args",
                   value |-> [text_repr |-> "raise", repr |-> "ok",
                              name |-> [get |-> "falsy", value |-> None],
                              klass |-> [get |-> "falsy", value |-> None]]] >> }]

InitPrintExc ==
    /\ pc = "print_exc"
    /\ \E etb \in Chains, context \in Contexts, tb_offset \in {0, 1}, evalue \in EValues :
          arg = [fn |-> "print_exc", evalue |-> evalue, etb |-> etb, context |-> context,
                 tb_offset |-> tb_offset, stack_start |-> Default, stack_end |-> Default,
                 ignore_ipython |-> FALSE]
    /\ ret = None
    /\ Quiet

InitPrintOuterFrame ==
    /\ pc = "print_outer_frame"
    /\ \E stack \in Chains, context \in Contexts, stack_end \in {Default, <<0>>},
          ignore_ipython \in BOOLEAN :
          arg = [fn |-> "print_outer_frame", evalue |-> None, etb |-> stack,
                 context |-> context, tb_offset |-> 0, stack_start |-> Default,
                 stack_end |-> stack_end, ignore_ipython |-> ignore_ipython]
    /\ ret = None
    /\ Quiet

Init == InitPrintExc \/ InitPrintOuterFrame

Next ==
    \/ FixedGetframes
    \/ ExceptionInfo
    \/ OuterFrames
    \/ PrintRecordsFrame
    \/ PrintExcReturn
    \/ PrintOuterFrameReturn

Spec == Init /\ [][Next]_vars

\* C1: the window code returns exactly `context` lines for every target
\* line, file length and context, also near the top and the end of the file.
C1_WindowHasContextLines ==
    \A i \in DOMAIN records : Len(records[i].lines) = arg.context

\* C2: when the target line exists in the file, the recorded index is the
\* position of the target line in the window, so the marker and the number
\* of the target are put on the target line.
C2_IndexIsTargetPosition ==
    \A i \in DOMAIN records :
        LET r == records[i]
        IN  (r.lnum <= r.file /\ arg.context > 0) =>
                /\ r.index[1] + 1 \in DOMAIN r.lines
                /\ r.lines[r.index[1] + 1] = r.lnum
                /\ i \in DOMAIN frames =>
                      \A k \in DOMAIN frames[i].rows :
                          LET row == frames[i].rows[k]
                          IN  row.kind = "src" => (row.marked <=> row.text = <<r.lnum>>)

\* C8: for a file that cannot be found the window is empty and the frame is
\* rendered without a source panel.
C8_MissingSourceNoPanel ==
    \A i \in DOMAIN records :
        records[i].file = 0 =>
            /\ records[i].lines = <<>>
            /\ i \in DOMAIN frames => frames[i].rows = <<>>

\* C3: print_exc on a value whose dir() raises does not raise, and the text
\* it returns contains the placeholder line recorded for that failure.
C3_BrokenDirReported ==
    (arg.fn = "print_exc" /\ Placeholder \in Range(exception)) =>
        /\ pc # "raised"
        /\ pc = "returned" => Placeholder \in Range(ret.exception)

----------------------------------------------------------------------------
(* Specification of print_records called on the records of inspect *)

\* the bindings of a frame: declared locals, bound locals, failing names
Envs ==
    { [co |-> {"y", "obj"}, loc |-> {"obj"}, er |-> {}],
      [co |-> {"y", "obj"}, loc |-> {"y", "obj"}, er |-> {Dotted("obj", "attr2")}],
      [co |-> {"y"}, loc |-> {"y"}, er |-> {}] }

InspectedFrames ==
    { FrameInfo(0, func, ga, fa, e.co, e.loc, e.er, src) :
        func \in {"f", "?"}, ga \in {"ok", "raise"}, fa \in {"ok", "KeyError", "TypeError"},
        e \in Envs, src \in {"y = obj.attr + obj.attr2", "g(obj).attr"} }

\* inspect.getinnerframes with context 5 on line 3 of a file of 5 lines, or
\* of a file without source (lines and index None)
InspectedRecords ==
    { Record(fr, 5, 3, fr.func, w.lines, w.index) :
        fr \in InspectedFrames, w \in {window(5, 3, 5), [lines |-> <<>>, index |-> NoIndex]} }

InitRecords ==
    /\ pc = "print_records"
    /\ records \in {Numbered(c) : c \in UNION {[1..n -> InspectedRecords] : n \in 1..MaxFrames}}
    /\ arg = [fn |-> "print_records"]
    /\ ret = None
    /\ names = <<>>
    /\ name_cont = FALSE
    /\ tpos = 0
    /\ exception = <<>>
    /\ bound = None
    /\ frames = <<>>

NextRecords == PrintRecordsFrame \/ PrintRecordsReturn

SpecRecords == InitRecords /\ [][NextRecords]_vars

EvalRaises(fr, name) == name \in fr.eval_raises \/ ~WellFormed(name)

\* C4: for every frame and every referenced name in first-occurrence order,
\* a declared local gets exactly one line name = value, the value being the
\* repr of the expression in the frame's bindings or "undefined" when the
\* base is unbound or the evaluation raises; other names get no line; no
\* failure leaves the resolver.
C4_LocalsResolved ==
    /\ pc = "raised" => ret.at # "locals.has_key"
    /\ \A k \in DOMAIN frames :
          LET rec == records[k]
              un  == unique_names_of(tokens_at(rec))
              lv  == frames[k].lvals
          IN  \A j \in DOMAIN un :
                  LET on == {i \in DOMAIN lv : lv[i].name = un[j]}
                  IN  IF un[j][1] \in rec.frame.co_varnames
                      THEN /\ Cardinality(on) = 1
                           /\ \A i \in on :
                                 lv[i].value =
                                    IF un[j][1] \in rec.frame.f_locals
                                         /\ ~EvalRaises(rec.frame, un[j])
                                    THEN ReprIn(rec.frame, un[j])
                                    ELSE Undefined
                      ELSE on = {}

\* C9: for a frame with a function name, whenever resolving its arguments
\* fails the call fragment is the placeholder and rendering continues,
\* without values left over from an earlier frame; a frame without a
\* function name has an empty call fragment.
C9_FailedArgumentsPlaceholder ==
    /\ pc # "raised"
    /\ \A k \in DOMAIN frames :
          LET rec  == records[k]
              call == frames[k].level.call
          IN  /\ rec.func = "?" => call = NoCall
              /\ (rec.func # "?" /\ (rec.frame.getargvalues = "raise"
                                       \/ rec.frame.formatargvalues # "ok"))
                    => call = FailedCall(rec.func)
              /\ call.args = "values" => call.of = rec.frame.id
              /\ \A i \in DOMAIN frames[k].lvals :
                    frames[k].lvals[i].value.in_frame \in {0, rec.frame.id}

====
